---- MODULE Spec2Model ----
(***************************************************************************)
(* A model of package ilist (src/ilist.go): an intrusive doubly linked     *)
(* list.  A List holds two pointers, head and tail; the next and prev      *)
(* pointers live in the nodes (Entry).  Pointers are node identities, and  *)
(* Nil stands for Go's nil.                                                *)
(***************************************************************************)
EXTENDS Integers, Sequences, FiniteSets, TLC

NumNodes == 3
NumLists == 2
NumThreads == 2

Nil == 0
Nodes == 1..NumNodes
Lists == 1..NumLists
Threads == 1..NumThreads
VARIABLES head, tail, next, prev, mem, last, hist, thread, mutex

\* The program's memory: the fields of every List and of every Entry.
S == [head |-> head, tail |-> tail, next |-> next, prev |-> prev]

vars == <<head, tail, next, prev, mem, last, hist, thread, mutex>>

----------------------------------------------------------------------------
(* Entry: the four accessors, as reads and writes of one field.            *)

EntryNext(s, e) == s.next[e]

EntryPrev(s, e) == s.prev[e]

SetNext(s, e, elem) == [s EXCEPT !.next[e] = elem]

SetPrev(s, e, elem) == [s EXCEPT !.prev[e] = elem]

----------------------------------------------------------------------------
(* List: every method is a function from the memory before the call to the *)
(* memory after it, built from the statements of the method in order.      *)

\* Reset that also unlinks the old head node.
ResetUnlinkHead(s, l) ==
    LET s0 == IF s.head[l] # Nil THEN SetNext(s, s.head[l], Nil) ELSE s
        s1 == [s0 EXCEPT !.head[l] = Nil]
    IN  [s1 EXCEPT !.tail[l] = Nil]

\* Reset that empties every list.
ResetEveryList(s, l) ==
    [s EXCEPT !.head = [k \in DOMAIN s.head |-> Nil],
              !.tail = [k \in DOMAIN s.tail |-> Nil]]

Reset(s, l) ==
    LET s1 == [s EXCEPT !.head[l] = Nil]
    IN  [s1 EXCEPT !.tail[l] = Nil]

Empty(s, l) == s.head[l] = Nil

Front(s, l) == s.head[l]

Back(s, l) == s.tail[l]

\* Len's loop; Diverges is the outcome of a loop that never reaches nil: a
\* walk that has counted more nodes than exist is inside a cycle.
Diverges == -1

\* The loop stopping at the last node instead of after it.
RECURSIVE LenLoopStopsAtTail(_, _, _)
LenLoopStopsAtTail(s, e, count) ==
    IF e = Nil \/ EntryNext(s, e) = Nil THEN count
    ELSE IF count >= NumNodes THEN Diverges
    ELSE LenLoopStopsAtTail(s, EntryNext(s, e), count + 1)

RECURSIVE LenLoop(_, _, _)
LenLoop(s, e, count) ==
    IF e = Nil THEN count
    ELSE IF count >= NumNodes THEN Diverges
    ELSE LenLoop(s, EntryNext(s, e), count + 1)

ListLen(s, l) == LenLoop(s, Front(s, l), 0)

\* The iteration of the List documentation: from an end, along one link field,
\* until nil.  A walk longer than NumNodes nodes is cut: it is inside a cycle.
RECURSIVE Walk(_, _, _)
Walk(link, e, fuel) ==
    IF e = Nil \/ fuel = 0 THEN <<>>
    ELSE <<e>> \o Walk(link, link[e], fuel - 1)

Forward(s, l) == Walk(s.next, Front(s, l), NumNodes + 1)

Backward(s, l) == Walk(s.prev, Back(s, l), NumNodes + 1)

\* PushFront that leaves the tail of an empty list nil.
PushFrontNoTail(s, l, e) ==
    LET s1 == SetNext(s, e, s.head[l])
        s2 == SetPrev(s1, e, Nil)
        s3 == IF s2.head[l] # Nil
              THEN SetPrev(s2, s2.head[l], e)
              ELSE s2
    IN  [s3 EXCEPT !.head[l] = e]

\* PushFront that returns at once when e is already the head.
PushFrontSkipHead(s, l, e) ==
    IF s.head[l] = e THEN s
    ELSE LET s1 == SetNext(s, e, s.head[l])
             s2 == SetPrev(s1, e, Nil)
             s3 == IF s2.head[l] # Nil
                   THEN SetPrev(s2, s2.head[l], e)
                   ELSE [s2 EXCEPT !.tail[l] = e]
         IN  [s3 EXCEPT !.head[l] = e]

PushFront(s, l, e) ==
    LET s1 == SetNext(s, e, s.head[l])
        s2 == SetPrev(s1, e, Nil)
        s3 == IF s2.head[l] # Nil
              THEN SetPrev(s2, s2.head[l], e)
              ELSE [s2 EXCEPT !.tail[l] = e]
    IN  [s3 EXCEPT !.head[l] = e]

\* PushBack that does not link the old tail to the new node.
PushBackNoForwardLink(s, l, e) ==
    LET s1 == SetNext(s, e, Nil)
        s2 == SetPrev(s1, e, s1.tail[l])
        s3 == IF s2.tail[l] # Nil
              THEN s2
              ELSE [s2 EXCEPT !.head[l] = e]
    IN  [s3 EXCEPT !.tail[l] = e]

\* PushBack that trusts the next link of e to be nil already.
PushBackKeepNext(s, l, e) ==
    LET s2 == SetPrev(s, e, s.tail[l])
        s3 == IF s2.tail[l] # Nil
              THEN SetNext(s2, s2.tail[l], e)
              ELSE [s2 EXCEPT !.head[l] = e]
    IN  [s3 EXCEPT !.tail[l] = e]

PushBack(s, l, e) ==
    LET s1 == SetNext(s, e, Nil)
        s2 == SetPrev(s1, e, s1.tail[l])
        s3 == IF s2.tail[l] # Nil
              THEN SetNext(s2, s2.tail[l], e)
              ELSE [s2 EXCEPT !.head[l] = e]
    IN  [s3 EXCEPT !.tail[l] = e]

\* PushFrontList that sets the prev link of l's tail instead of l's head.
PushFrontListWrongEnd(s, l, m) ==
    LET s1 == IF s.head[l] = Nil
              THEN LET t1 == [s EXCEPT !.head[l] = s.head[m]]
                   IN  [t1 EXCEPT !.tail[l] = t1.tail[m]]
              ELSE IF s.head[m] # Nil
              THEN LET t1 == SetPrev(s, s.tail[l], s.tail[m])
                       t2 == SetNext(t1, t1.tail[m], t1.head[l])
                   IN  [t2 EXCEPT !.head[l] = t2.head[m]]
              ELSE s
        s2 == [s1 EXCEPT !.head[m] = Nil]
    IN  [s2 EXCEPT !.tail[m] = Nil]

PushFrontList(s, l, m) ==
    LET s1 == IF s.head[l] = Nil
              THEN LET t1 == [s EXCEPT !.head[l] = s.head[m]]
                   IN  [t1 EXCEPT !.tail[l] = t1.tail[m]]
              ELSE IF s.head[m] # Nil
              THEN LET t1 == SetPrev(s, s.head[l], s.tail[m])
                       t2 == SetNext(t1, t1.tail[m], t1.head[l])
                   IN  [t2 EXCEPT !.head[l] = t2.head[m]]
              ELSE s
        s2 == [s1 EXCEPT !.head[m] = Nil]
    IN  [s2 EXCEPT !.tail[m] = Nil]

\* PushBackList that returns at once when m is l itself.
PushBackListSkipSelf(s, l, m) ==
    IF l = m THEN s
    ELSE LET s1 == IF s.head[l] = Nil
                   THEN LET t1 == [s EXCEPT !.head[l] = s.head[m]]
                        IN  [t1 EXCEPT !.tail[l] = t1.tail[m]]
                   ELSE IF s.head[m] # Nil
                   THEN LET t1 == SetNext(s, s.tail[l], s.head[m])
                            t2 == SetPrev(t1, t1.head[m], t1.tail[l])
                        IN  [t2 EXCEPT !.tail[l] = t2.tail[m]]
                   ELSE s
             s2 == [s1 EXCEPT !.head[m] = Nil]
         IN  [s2 EXCEPT !.tail[m] = Nil]

\* PushBackList that keeps l's old tail.
PushBackListKeepTail(s, l, m) ==
    LET s1 == IF s.head[l] = Nil
              THEN LET t1 == [s EXCEPT !.head[l] = s.head[m]]
                   IN  [t1 EXCEPT !.tail[l] = t1.tail[m]]
              ELSE IF s.head[m] # Nil
              THEN LET t1 == SetNext(s, s.tail[l], s.head[m])
                   IN  SetPrev(t1, t1.head[m], t1.tail[l])
              ELSE s
        s2 == [s1 EXCEPT !.head[m] = Nil]
    IN  [s2 EXCEPT !.tail[m] = Nil]

PushBackList(s, l, m) ==
    LET s1 == IF s.head[l] = Nil
              THEN LET t1 == [s EXCEPT !.head[l] = s.head[m]]
                   IN  [t1 EXCEPT !.tail[l] = t1.tail[m]]
              ELSE IF s.head[m] # Nil
              THEN LET t1 == SetNext(s, s.tail[l], s.head[m])
                       t2 == SetPrev(t1, t1.head[m], t1.tail[l])
                   IN  [t2 EXCEPT !.tail[l] = t2.tail[m]]
              ELSE s
        s2 == [s1 EXCEPT !.head[m] = Nil]
    IN  [s2 EXCEPT !.tail[m] = Nil]

\* InsertAfter without the successor's back link.
InsertAfterNoBackLink(s, l, b, e) ==
    LET a  == EntryNext(s, b)
        s1 == SetNext(s, e, a)
        s2 == SetPrev(s1, e, b)
        s3 == SetNext(s2, b, e)
    IN  IF a # Nil
        THEN s3
        ELSE [s3 EXCEPT !.tail[l] = e]

InsertAfter(s, l, b, e) ==
    LET a  == EntryNext(s, b)
        s1 == SetNext(s, e, a)
        s2 == SetPrev(s1, e, b)
        s3 == SetNext(s2, b, e)
    IN  IF a # Nil
        THEN SetPrev(s3, a, e)
        ELSE [s3 EXCEPT !.tail[l] = e]

\* InsertBefore that never moves the head.
InsertBeforeKeepHead(s, l, a, e) ==
    LET b  == EntryPrev(s, a)
        s1 == SetNext(s, e, a)
        s2 == SetPrev(s1, e, b)
        s3 == SetPrev(s2, a, e)
    IN  IF b # Nil
        THEN SetNext(s3, b, e)
        ELSE s3

InsertBefore(s, l, a, e) ==
    LET b  == EntryPrev(s, a)
        s1 == SetNext(s, e, a)
        s2 == SetPrev(s1, e, b)
        s3 == SetPrev(s2, a, e)
    IN  IF b # Nil
        THEN SetNext(s3, b, e)
        ELSE [s3 EXCEPT !.head[l] = e]

\* Remove that never moves the tail.
RemoveKeepTail(s, l, e) ==
    LET prv == EntryPrev(s, e)
        nxt == EntryNext(s, e)
        s1  == IF prv # Nil
               THEN SetNext(s, prv, nxt)
               ELSE IF s.head[l] = e
               THEN [s EXCEPT !.head[l] = nxt]
               ELSE s
        s2  == IF nxt # Nil
               THEN SetPrev(s1, nxt, prv)
               ELSE s1
        s3  == SetNext(s2, e, Nil)
    IN  SetPrev(s3, e, Nil)

\* Remove that leaves the successor's back link on the removed node.
RemoveKeepBackLink(s, l, e) ==
    LET prv == EntryPrev(s, e)
        nxt == EntryNext(s, e)
        s1  == IF prv # Nil
               THEN SetNext(s, prv, nxt)
               ELSE IF s.head[l] = e
               THEN [s EXCEPT !.head[l] = nxt]
               ELSE s
        s2  == IF nxt # Nil
               THEN s1
               ELSE IF s1.tail[l] = e
               THEN [s1 EXCEPT !.tail[l] = prv]
               ELSE s1
        s3  == SetNext(s2, e, Nil)
    IN  SetPrev(s3, e, Nil)

\* Remove that does not clear the removed node's own links.
RemoveKeepOwnLinks(s, l, e) ==
    LET prv == EntryPrev(s, e)
        nxt == EntryNext(s, e)
        s1  == IF prv # Nil
               THEN SetNext(s, prv, nxt)
               ELSE IF s.head[l] = e
               THEN [s EXCEPT !.head[l] = nxt]
               ELSE s
    IN  IF nxt # Nil
        THEN SetPrev(s1, nxt, prv)
        ELSE IF s1.tail[l] = e
        THEN [s1 EXCEPT !.tail[l] = prv]
        ELSE s1

\* Remove that moves the head whenever the node has no predecessor.
RemoveNoHeadCheck(s, l, e) ==
    LET prv == EntryPrev(s, e)
        nxt == EntryNext(s, e)
        s1  == IF prv # Nil
               THEN SetNext(s, prv, nxt)
               ELSE [s EXCEPT !.head[l] = nxt]
        s2  == IF nxt # Nil
               THEN SetPrev(s1, nxt, prv)
               ELSE IF s1.tail[l] = e
               THEN [s1 EXCEPT !.tail[l] = prv]
               ELSE s1
        s3  == SetNext(s2, e, Nil)
    IN  SetPrev(s3, e, Nil)

\* Remove that moves the tail whenever the node has no successor.
RemoveNoTailCheck(s, l, e) ==
    LET prv == EntryPrev(s, e)
        nxt == EntryNext(s, e)
        s1  == IF prv # Nil
               THEN SetNext(s, prv, nxt)
               ELSE IF s.head[l] = e
               THEN [s EXCEPT !.head[l] = nxt]
               ELSE s
        s2  == IF nxt # Nil
               THEN SetPrev(s1, nxt, prv)
               ELSE [s1 EXCEPT !.tail[l] = prv]
        s3  == SetNext(s2, e, Nil)
    IN  SetPrev(s3, e, Nil)

Remove(s, l, e) ==
    LET prv == EntryPrev(s, e)
        nxt == EntryNext(s, e)
        s1  == IF prv # Nil
               THEN SetNext(s, prv, nxt)
               ELSE IF s.head[l] = e
               THEN [s EXCEPT !.head[l] = nxt]
               ELSE s
        s2  == IF nxt # Nil
               THEN SetPrev(s1, nxt, prv)
               ELSE IF s1.tail[l] = e
               THEN [s1 EXCEPT !.tail[l] = prv]
               ELSE s1
        s3  == SetNext(s2, e, Nil)
    IN  SetPrev(s3, e, Nil)

----------------------------------------------------------------------------
(* Sequences of nodes.                                                     *)

Range(q) == {q[i] : i \in 1..Len(q)}

Reverse(q) == [i \in 1..Len(q) |-> q[Len(q) + 1 - i]]

NoDup(q) == \A i, j \in 1..Len(q) : q[i] = q[j] => i = j

Without(q, e) == SelectSeq(q, LAMBDA x : x # e)

IndexOf(q, e) == CHOOSE i \in 1..Len(q) : q[i] = e

\* q with e put in after its first k elements.
InsertAt(q, k, e) == SubSeq(q, 1, k) \o <<e>> \o SubSeq(q, k + 1, Len(q))

----------------------------------------------------------------------------
(* The caller.  mem[l] is the caller's knowledge of which nodes it has put *)
(* into list l and not taken out again (the package keeps no such record); *)
(* last is the call that produced the current state, with the forward      *)
(* walks of its receiver (pl) and of its argument list (pm) before it;     *)
(* hist[l] is the sequence of calls made on list l by a caller that keeps  *)
(* such a record.  thread[t] is the call that goroutine t is executing,    *)
(* with its position in the method and its local variables; mutex is the   *)
(* caller's lock around the calls: whether the caller uses one, and its    *)
(* owner.                                                                  *)

Idle == [pc |-> "idle", l |-> Nil, e |-> Nil, r |-> Nil, prv |-> Nil, nxt |-> Nil]

Call(op, l, e, a, m) ==
    [op |-> op, l |-> l, e |-> e, a |-> a, m |-> m,
     pl |-> IF l = Nil THEN <<>> ELSE Forward(S, l),
     pm |-> IF m = Nil THEN <<>> ELSE Forward(S, m)]

Linked == UNION {mem[l] : l \in Lists}

Unlinked == Nodes \ Linked

\* The memory after a call becomes the current memory.
Store(s) ==
    /\ head' = s.head
    /\ tail' = s.tail
    /\ next' = s.next
    /\ prev' = s.prev

Init ==
    /\ head = [l \in Lists |-> Nil]
    /\ tail = [l \in Lists |-> Nil]
    /\ next = [e \in Nodes |-> Nil]
    /\ prev = [e \in Nodes |-> Nil]
    /\ mem = [l \in Lists |-> {}]
    /\ last = Call("Init", Nil, Nil, Nil, Nil)
    /\ hist = [l \in Lists |-> <<>>]
    /\ thread = [t \in Threads |-> Idle]
    /\ mutex = [on |-> FALSE, owner |-> Nil]

CallReset ==
    \E l \in Lists :
        /\ Store(Reset(S, l))
        /\ mem' = [mem EXCEPT ![l] = {}]
        /\ last' = Call("Reset", l, Nil, Nil, Nil)
        /\ UNCHANGED <<hist, thread, mutex>>

CallPushFront ==
    \E l \in Lists, e \in Unlinked :
        /\ Store(PushFront(S, l, e))
        /\ mem' = [mem EXCEPT ![l] = @ \cup {e}]
        /\ last' = Call("PushFront", l, e, Nil, Nil)
        /\ UNCHANGED <<hist, thread, mutex>>

CallPushBack ==
    \E l \in Lists, e \in Unlinked :
        /\ Store(PushBack(S, l, e))
        /\ mem' = [mem EXCEPT ![l] = @ \cup {e}]
        /\ last' = Call("PushBack", l, e, Nil, Nil)
        /\ UNCHANGED <<hist, thread, mutex>>

CallPushFrontList ==
    \E l \in Lists, m \in Lists :
        /\ m # l
        /\ Store(PushFrontList(S, l, m))
        /\ mem' = [mem EXCEPT ![l] = mem[l] \cup mem[m], ![m] = {}]
        /\ last' = Call("PushFrontList", l, Nil, Nil, m)
        /\ UNCHANGED <<hist, thread, mutex>>

CallPushBackList ==
    \E l \in Lists, m \in Lists :
        /\ m # l
        /\ Store(PushBackList(S, l, m))
        /\ mem' = [mem EXCEPT ![l] = mem[l] \cup mem[m], ![m] = {}]
        /\ last' = Call("PushBackList", l, Nil, Nil, m)
        /\ UNCHANGED <<hist, thread, mutex>>

CallInsertAfter ==
    \E l \in Lists, e \in Unlinked :
        \E b \in mem[l] :
            /\ Store(InsertAfter(S, l, b, e))
            /\ mem' = [mem EXCEPT ![l] = @ \cup {e}]
            /\ last' = Call("InsertAfter", l, e, b, Nil)
            /\ UNCHANGED <<hist, thread, mutex>>

CallInsertBefore ==
    \E l \in Lists, e \in Unlinked :
        \E a \in mem[l] :
            /\ Store(InsertBefore(S, l, a, e))
            /\ mem' = [mem EXCEPT ![l] = @ \cup {e}]
            /\ last' = Call("InsertBefore", l, e, a, Nil)
            /\ UNCHANGED <<hist, thread, mutex>>

CallRemove ==
    \E l \in Lists :
        \E e \in mem[l] :
            /\ Store(Remove(S, l, e))
            /\ mem' = [mem EXCEPT ![l] = @ \ {e}]
            /\ last' = Call("Remove", l, e, Nil, Nil)
            /\ UNCHANGED <<hist, thread, mutex>>

Next ==
    \/ CallReset
    \/ CallPushFront
    \/ CallPushBack
    \/ CallPushFrontList
    \/ CallPushBackList
    \/ CallInsertAfter
    \/ CallInsertBefore
    \/ CallRemove

Spec == Init /\ [][Next]_vars

----------------------------------------------------------------------------
(* A caller that only pushes, and records every push.                      *)

Record(l, op, e) == [hist EXCEPT ![l] = Append(@, [op |-> op, e |-> e])]

TracePushFront ==
    \E l \in Lists, e \in Unlinked :
        /\ Store(PushFront(S, l, e))
        /\ mem' = [mem EXCEPT ![l] = @ \cup {e}]
        /\ last' = Call("PushFront", l, e, Nil, Nil)
        /\ hist' = Record(l, "PushFront", e)
        /\ UNCHANGED <<thread, mutex>>

TracePushBack ==
    \E l \in Lists, e \in Unlinked :
        /\ Store(PushBack(S, l, e))
        /\ mem' = [mem EXCEPT ![l] = @ \cup {e}]
        /\ last' = Call("PushBack", l, e, Nil, Nil)
        /\ hist' = Record(l, "PushBack", e)
        /\ UNCHANGED <<thread, mutex>>

NextPush ==
    \/ TracePushFront
    \/ TracePushBack

SpecPush == Init /\ [][NextPush]_vars

----------------------------------------------------------------------------
(* A caller that uses each list as a queue: it pushes fresh nodes to the   *)
(* back, then takes nodes from the front until the list is empty.          *)

Pushed(l) == SelectSeq(hist[l], LAMBDA h : h.op = "PushBack")

Removed(l) == SelectSeq(hist[l], LAMBDA h : h.op = "Remove")

FifoPushBack ==
    \E l \in Lists, e \in Unlinked :
        /\ Removed(l) = <<>>
        /\ \A k \in Lists : e \notin {h.e : h \in Range(hist[k])}
        /\ Store(PushBack(S, l, e))
        /\ mem' = [mem EXCEPT ![l] = @ \cup {e}]
        /\ last' = Call("PushBack", l, e, Nil, Nil)
        /\ hist' = Record(l, "PushBack", e)
        /\ UNCHANGED <<thread, mutex>>

FifoRemoveFront ==
    \E l \in Lists :
        /\ ~Empty(S, l)
        /\ Store(Remove(S, l, Front(S, l)))
        /\ mem' = [mem EXCEPT ![l] = @ \ {Front(S, l)}]
        /\ last' = Call("Remove", l, Front(S, l), Nil, Nil)
        /\ hist' = Record(l, "Remove", Front(S, l))
        /\ UNCHANGED <<thread, mutex>>

NextFifo ==
    \/ FifoPushBack
    \/ FifoRemoveFront

SpecFifo == Init /\ [][NextFifo]_vars

----------------------------------------------------------------------------
(* A caller that breaks a precondition once.  Up to that call it makes the *)
(* calls of Next; the package reports nothing, so the offending call is    *)
(* the statements of the method applied to the arguments as they are.      *)

InsertMemberOps ==
    {"PushFrontMember", "PushBackMember", "InsertAfterMember", "InsertBeforeMember"}

SelfSpliceOps == {"PushFrontListSelf", "PushBackListSelf"}

MisuseOps == {"RemoveNonMember"} \cup InsertMemberOps \cup SelfSpliceOps

Misused == last.op \in MisuseOps

\* The list the caller has e in, or Nil.
ListOf(e) == IF e \in Linked THEN CHOOSE l \in Lists : e \in mem[l] ELSE Nil

CallProper ==
    /\ ~Misused
    /\ Next

\* l.Remove(e) for a node e that is not in l.
RemoveNonMember ==
    \E l \in Lists, e \in Nodes :
        /\ ~Misused
        /\ e \notin mem[l]
        /\ Store(Remove(S, l, e))
        /\ last' = Call("RemoveNonMember", l, e, Nil, ListOf(e))
        /\ UNCHANGED <<mem, hist, thread, mutex>>

\* l.PushFront(e) for a node e that is already in l.
PushFrontMember ==
    \E l \in Lists :
        \E e \in mem[l] :
            /\ ~Misused
            /\ Store(PushFront(S, l, e))
            /\ last' = Call("PushFrontMember", l, e, Nil, Nil)
            /\ UNCHANGED <<mem, hist, thread, mutex>>

\* l.PushBack(e) for a node e that is already in l.
PushBackMember ==
    \E l \in Lists :
        \E e \in mem[l] :
            /\ ~Misused
            /\ Store(PushBack(S, l, e))
            /\ last' = Call("PushBackMember", l, e, Nil, Nil)
            /\ UNCHANGED <<mem, hist, thread, mutex>>

\* l.InsertAfter(b, e) for a member b and a node e that is already in l.
InsertAfterMember ==
    \E l \in Lists :
        \E b \in mem[l], e \in mem[l] :
            /\ ~Misused
            /\ Store(InsertAfter(S, l, b, e))
            /\ last' = Call("InsertAfterMember", l, e, b, Nil)
            /\ UNCHANGED <<mem, hist, thread, mutex>>

\* l.InsertBefore(a, e) for a member a and a node e that is already in l.
InsertBeforeMember ==
    \E l \in Lists :
        \E a \in mem[l], e \in mem[l] :
            /\ ~Misused
            /\ Store(InsertBefore(S, l, a, e))
            /\ last' = Call("InsertBeforeMember", l, e, a, Nil)
            /\ UNCHANGED <<mem, hist, thread, mutex>>

\* l.PushFrontList(l).
PushFrontListSelf ==
    \E l \in Lists :
        /\ ~Misused
        /\ Store(PushFrontList(S, l, l))
        /\ last' = Call("PushFrontListSelf", l, Nil, Nil, l)
        /\ UNCHANGED <<mem, hist, thread, mutex>>

\* l.PushBackList(l).
PushBackListSelf ==
    \E l \in Lists :
        /\ ~Misused
        /\ Store(PushBackList(S, l, l))
        /\ last' = Call("PushBackListSelf", l, Nil, Nil, l)
        /\ UNCHANGED <<mem, hist, thread, mutex>>

NextMisuse ==
    \/ CallProper
    \/ RemoveNonMember
    \/ PushFrontMember
    \/ PushBackMember
    \/ InsertAfterMember
    \/ InsertBeforeMember
    \/ PushFrontListSelf
    \/ PushBackListSelf

SpecMisuse == Init /\ [][NextMisuse]_vars

----------------------------------------------------------------------------
(* Goroutines calling PushBack and Remove on one list at the same time.    *)
(* A call is executed one field read or field write at a time.  A step     *)
(* yields the set of its outcomes, a memory and a thread each: the package *)
(* has no synchronisation, so where a method reads a List field again the  *)
(* build may load it again or keep the value it has loaded.                *)

Outcome(s, th) == [s |-> s, th |-> th]

At(th, pc) == [th EXCEPT !.pc = pc]

\* PushBack whose write of the old tail's next link is missing.
StepPushBackNoLink(s, th) ==
    LET l == th.l
        e == th.e
    IN  CASE th.pc = "pb_setnext" ->
                {Outcome(SetNext(s, e, Nil), At(th, "pb_readtail"))}
          [] th.pc = "pb_readtail" ->
                {Outcome(s, [th EXCEPT !.r = s.tail[l], !.pc = "pb_setprev"])}
          [] th.pc = "pb_setprev" ->
                {Outcome(SetPrev(s, e, th.r), At(th, "pb_test"))}
          [] th.pc = "pb_test" ->
                {Outcome(s, [th EXCEPT !.r = x,
                                       !.pc = IF x # Nil THEN "pb_link"
                                                         ELSE "pb_sethead"]) :
                    x \in {s.tail[l], th.r}}
          [] th.pc = "pb_link" ->
                {Outcome(s, At(th, "pb_settail"))}
          [] th.pc = "pb_sethead" ->
                {Outcome([s EXCEPT !.head[l] = e], At(th, "pb_settail"))}
          [] th.pc = "pb_settail" ->
                {Outcome([s EXCEPT !.tail[l] = e], At(th, "done"))}
          [] OTHER -> {}

StepPushBack(s, th) ==
    LET l == th.l
        e == th.e
    IN  CASE th.pc = "pb_setnext" ->
                {Outcome(SetNext(s, e, Nil), At(th, "pb_readtail"))}
          [] th.pc = "pb_readtail" ->
                {Outcome(s, [th EXCEPT !.r = s.tail[l], !.pc = "pb_setprev"])}
          [] th.pc = "pb_setprev" ->
                {Outcome(SetPrev(s, e, th.r), At(th, "pb_test"))}
          [] th.pc = "pb_test" ->
                {Outcome(s, [th EXCEPT !.r = x,
                                       !.pc = IF x # Nil THEN "pb_link"
                                                         ELSE "pb_sethead"]) :
                    x \in {s.tail[l], th.r}}
          [] th.pc = "pb_link" ->
                {IF x # Nil
                 THEN Outcome(SetNext(s, x, e), At(th, "pb_settail"))
                 ELSE Outcome(s, At(th, "panic")) :
                    x \in {s.tail[l], th.r}}
          [] th.pc = "pb_sethead" ->
                {Outcome([s EXCEPT !.head[l] = e], At(th, "pb_settail"))}
          [] th.pc = "pb_settail" ->
                {Outcome([s EXCEPT !.tail[l] = e], At(th, "done"))}
          [] OTHER -> {}

StepRemove(s, th) ==
    LET l == th.l
        e == th.e
    IN  CASE th.pc = "rm_readprev" ->
                {Outcome(s, [th EXCEPT !.prv = EntryPrev(s, e),
                                       !.pc = "rm_readnext"])}
          [] th.pc = "rm_readnext" ->
                {Outcome(s, [th EXCEPT !.nxt = EntryNext(s, e),
                                       !.pc = "rm_fixprev"])}
          [] th.pc = "rm_fixprev" ->
                {IF th.prv # Nil
                 THEN Outcome(SetNext(s, th.prv, th.nxt), At(th, "rm_fixnext"))
                 ELSE IF s.head[l] = e
                 THEN Outcome(s, At(th, "rm_sethead"))
                 ELSE Outcome(s, At(th, "rm_fixnext"))}
          [] th.pc = "rm_sethead" ->
                {Outcome([s EXCEPT !.head[l] = th.nxt], At(th, "rm_fixnext"))}
          [] th.pc = "rm_fixnext" ->
                {IF th.nxt # Nil
                 THEN Outcome(SetPrev(s, th.nxt, th.prv), At(th, "rm_clearnext"))
                 ELSE IF s.tail[l] = e
                 THEN Outcome(s, At(th, "rm_settail"))
                 ELSE Outcome(s, At(th, "rm_clearnext"))}
          [] th.pc = "rm_settail" ->
                {Outcome([s EXCEPT !.tail[l] = th.prv], At(th, "rm_clearnext"))}
          [] th.pc = "rm_clearnext" ->
                {Outcome(SetNext(s, e, Nil), At(th, "rm_clearprev"))}
          [] th.pc = "rm_clearprev" ->
                {Outcome(SetPrev(s, e, Nil), At(th, "done"))}
          [] OTHER -> {}

Resting(t) == thread[t].pc \in {"idle", "done", "panic"}

Quiet == \A t \in Threads : Resting(t)

NotStarted == \A t \in Threads : thread[t].pc = "idle"

\* The goroutines all call on one list.
SameList(l) == \A u \in Threads : thread[u].l \in {Nil, l}

\* The caller builds the lists before it starts the goroutines.
SetUp ==
    /\ NotStarted
    /\ CallPushBack

\* Goroutine t calls l.PushBack(e) for a node e that is in no list; with the
\* lock in use it takes the lock first.
BeginPushBack ==
    \E t \in Threads, l \in Lists, e \in Unlinked :
        /\ thread[t].pc = "idle"
        /\ SameList(l)
        /\ mutex.on => mutex.owner = Nil
        /\ thread' = [thread EXCEPT ![t] = [Idle EXCEPT !.pc = "pb_setnext",
                                                        !.l = l, !.e = e]]
        /\ mutex' = IF mutex.on THEN [mutex EXCEPT !.owner = t] ELSE mutex
        /\ mem' = [mem EXCEPT ![l] = @ \cup {e}]
        /\ UNCHANGED <<head, tail, next, prev, last, hist>>

\* Goroutine t calls l.Remove(e) for a member e of l that no other goroutine
\* is pushing.
BeginRemove ==
    \E t \in Threads, l \in Lists :
        \E e \in mem[l] :
            /\ thread[t].pc = "idle"
            /\ SameList(l)
            /\ mutex.on => mutex.owner = Nil
            /\ \A u \in Threads : Resting(u) \/ thread[u].e # e
            /\ thread' = [thread EXCEPT ![t] = [Idle EXCEPT !.pc = "rm_readprev",
                                                            !.l = l, !.e = e]]
            /\ mutex' = IF mutex.on THEN [mutex EXCEPT !.owner = t] ELSE mutex
            /\ mem' = [mem EXCEPT ![l] = @ \ {e}]
            /\ UNCHANGED <<head, tail, next, prev, last, hist>>

\* One read or write of a running call; the lock is released on return.
Advance(t, o) ==
    /\ Store(o.s)
    /\ thread' = [thread EXCEPT ![t] = o.th]
    /\ mutex' = IF mutex.on /\ o.th.pc \in {"done", "panic"}
                THEN [mutex EXCEPT !.owner = Nil]
                ELSE mutex
    /\ UNCHANGED <<mem, last, hist>>

RunPushBack ==
    \E t \in Threads :
        \E o \in StepPushBack(S, thread[t]) : Advance(t, o)

RunRemove ==
    \E t \in Threads :
        \E o \in StepRemove(S, thread[t]) : Advance(t, o)

InitThreads ==
    /\ head = [l \in Lists |-> Nil]
    /\ tail = [l \in Lists |-> Nil]
    /\ next = [e \in Nodes |-> Nil]
    /\ prev = [e \in Nodes |-> Nil]
    /\ mem = [l \in Lists |-> {}]
    /\ last = Call("Init", Nil, Nil, Nil, Nil)
    /\ hist = [l \in Lists |-> <<>>]
    /\ thread = [t \in Threads |-> Idle]
    /\ mutex \in {[on |-> b, owner |-> Nil] : b \in BOOLEAN}

NextThreads ==
    \/ SetUp
    \/ BeginPushBack
    \/ BeginRemove
    \/ RunPushBack
    \/ RunRemove

SpecThreads == InitThreads /\ [][NextThreads]_vars

----------------------------------------------------------------------------
(* The structural invariants of a list.                                    *)

\* C1: head is nil iff tail is nil iff the list has no members, and Empty()
\* is true exactly then.
HeadTailEmpty(l) ==
    /\ head[l] = Nil <=> tail[l] = Nil
    /\ head[l] = Nil <=> mem[l] = {}
    /\ Empty(S, l) <=> mem[l] = {}

\* C2: the head of a non-empty list has no predecessor and its tail has no
\* successor.
EndsNil(l) ==
    mem[l] # {} =>
        /\ head[l] # Nil /\ prev[head[l]] = Nil
        /\ tail[l] # Nil /\ next[tail[l]] = Nil

\* C3: the links of the members agree in both directions, the forward walk
\* visits no node twice, and the backward walk is the forward walk reversed.
Chain(l) ==
    /\ \A a, b \in mem[l] : next[a] = b <=> prev[b] = a
    /\ NoDup(Forward(S, l))
    /\ Backward(S, l) = Reverse(Forward(S, l))

Structural(l) == HeadTailEmpty(l) /\ EndsNil(l) /\ Chain(l)

\* C1: in every reachable state, for every list, head = nil iff tail = nil
\* iff the list has no members iff Empty() is true.
C1_HeadTailEmpty == \A l \in Lists : HeadTailEmpty(l)

\* A list emptied by removing its only member while the other list is not empty.
C1_Witness ==
    /\ last.op = "Remove"
    /\ last.pl = <<last.e>>
    /\ Empty(S, last.l) /\ tail[last.l] = Nil
    /\ \E m \in Lists : ~Empty(S, m) /\ mem[m] # {}

\* C2: in every reachable state, the head of every non-empty list has a nil
\* prev link and its tail has a nil next link.
C2_EndsNil == \A l \in Lists : EndsNil(l)

\* The head of a three-member list was removed: its successor is the new head.
C2_Witness ==
    /\ last.op = "Remove"
    /\ Len(last.pl) = 3 /\ last.pl[1] = last.e
    /\ head[last.l] = last.pl[2] /\ prev[head[last.l]] = Nil

\* C3: in every reachable state every list is a consistent acyclic doubly
\* linked chain: member links agree in both directions, no node is visited
\* twice, and the backward walk is the reverse of the forward walk.
C3_Chain == \A l \in Lists : Chain(l)

\* A node was inserted between two members.
C3_Witness ==
    /\ last.op = "InsertAfter"
    /\ Len(last.pl) = 2 /\ last.pl[1] = last.a
    /\ Forward(S, last.l) = <<last.pl[1], last.e, last.pl[2]>>
    /\ Backward(S, last.l) = <<last.pl[2], last.e, last.pl[1]>>

\* C4: after Remove(e) of a member e, e's links are nil, the forward walk is
\* the walk before the call without e (the other members in their order, the
\* length one less, e's former neighbours adjacent), and the list satisfies
\* the structural invariants.
C4_Remove ==
    last.op = "Remove" =>
        LET l == last.l
            e == last.e
            q == last.pl
            i == IndexOf(q, e)
        IN  /\ e \in Range(q)
            /\ EntryNext(S, e) = Nil /\ EntryPrev(S, e) = Nil
            /\ Forward(S, l) = Without(q, e)
            /\ ListLen(S, l) = Len(q) - 1
            /\ (1 < i /\ i < Len(q)) =>
                   next[q[i - 1]] = q[i + 1] /\ prev[q[i + 1]] = q[i - 1]
            /\ Structural(l)

\* The middle member of a three-member list was removed.
C4_Witness ==
    /\ last.op = "Remove"
    /\ Len(last.pl) = 3 /\ last.pl[2] = last.e
    /\ Forward(S, last.l) = <<last.pl[1], last.pl[3]>>

\* C5: after l.PushBackList(m) the walk of l is l's walk before followed by
\* m's walk before, after l.PushFrontList(m) it is m's followed by l's; in
\* both cases m is empty and l's length is the sum of the two lengths.
C5_Splice ==
    last.op \in {"PushBackList", "PushFrontList"} =>
        LET l == last.l
            m == last.m
        IN  /\ l # m
            /\ Range(last.pl) \cap Range(last.pm) = {}
            /\ Forward(S, l) = IF last.op = "PushBackList"
                               THEN last.pl \o last.pm
                               ELSE last.pm \o last.pl
            /\ Empty(S, m)
            /\ ListLen(S, l) = Len(last.pl) + Len(last.pm)

\* A non-empty list was appended to a non-empty list.
C5_Witness ==
    /\ last.op = "PushBackList"
    /\ last.pl # <<>> /\ last.pm # <<>>
    /\ Len(Forward(S, last.l)) = 3
    /\ Empty(S, last.m)

\* C6: while a list is only pushed to, Front() is the node of the latest
\* PushFront (the node of the first PushBack if there was no PushFront) and
\* Back() is the node of the latest PushBack (the node of the first PushFront
\* if there was no PushBack).
C6_PushEnds ==
    \A l \in Lists :
        hist[l] # <<>> =>
            LET fr == SelectSeq(hist[l], LAMBDA h : h.op = "PushFront")
                bk == SelectSeq(hist[l], LAMBDA h : h.op = "PushBack")
            IN  /\ Front(S, l) = IF fr # <<>> THEN fr[Len(fr)].e ELSE bk[1].e
                /\ Back(S, l) = IF bk # <<>> THEN bk[Len(bk)].e ELSE fr[1].e

\* A list that was pushed to at the front only, twice.
C6_Witness ==
    \E l \in Lists :
        /\ Len(hist[l]) = 2
        /\ \A i \in 1..2 : hist[l][i].op = "PushFront"
        /\ Front(S, l) = hist[l][2].e
        /\ Back(S, l) = hist[l][1].e

\* C7: the nodes taken from the front of a queue are the nodes pushed to its
\* back, in the order they were pushed; when the queue has been emptied all
\* of them have been taken, head and tail are nil, and every one of them has
\* both links nil.
C7_Fifo ==
    \A l \in Lists :
        LET pushed == Pushed(l)
            removed == Removed(l)
        IN  /\ Len(removed) <= Len(pushed)
            /\ \A i \in 1..Len(removed) : removed[i].e = pushed[i].e
            /\ (removed # <<>> /\ Empty(S, l)) =>
                   /\ Len(removed) = Len(pushed)
                   /\ head[l] = Nil /\ tail[l] = Nil
                   /\ \A i \in 1..Len(pushed) :
                          /\ EntryNext(S, pushed[i].e) = Nil
                          /\ EntryPrev(S, pushed[i].e) = Nil

\* A queue of three nodes was emptied.
C7_Witness ==
    \E l \in Lists :
        /\ Len(Pushed(l)) = 3
        /\ Len(Removed(l)) = 3
        /\ Empty(S, l)

\* C8: InsertAfter(b, e) puts e right after b in the forward walk and leaves
\* the other members in their order, and Back() is e exactly when b was the
\* tail; InsertBefore(a, e) puts e right before a, and Front() is e exactly
\* when a was the head.
C8_Insert ==
    /\ last.op = "InsertAfter" =>
           LET q == last.pl
           IN  /\ last.a \in Range(q) /\ last.e \notin Range(q)
               /\ Forward(S, last.l) = InsertAt(q, IndexOf(q, last.a), last.e)
               /\ Back(S, last.l) = last.e <=> q[Len(q)] = last.a
    /\ last.op = "InsertBefore" =>
           LET q == last.pl
           IN  /\ last.a \in Range(q) /\ last.e \notin Range(q)
               /\ Forward(S, last.l) = InsertAt(q, IndexOf(q, last.a) - 1, last.e)
               /\ Front(S, last.l) = last.e <=> q[1] = last.a

\* A node was inserted before the head of a two-member list.
C8_Witness ==
    /\ last.op = "InsertBefore"
    /\ Len(last.pl) = 2 /\ last.pl[1] = last.a
    /\ Front(S, last.l) = last.e
    /\ Forward(S, last.l) = <<last.e>> \o last.pl

\* C9: a Reset() call sets head and tail of its list to nil and changes no
\* next or prev field of any node (nor the other lists).
C9_Reset ==
    [][last'.op = "Reset" =>
          /\ head' = [head EXCEPT ![last'.l] = Nil]
          /\ tail' = [tail EXCEPT ![last'.l] = Nil]
          /\ next' = next
          /\ prev' = prev]_vars

\* A list of several members was reset: its former members are still linked
\* to each other.
C9_Witness ==
    /\ last.op = "Reset"
    /\ Len(last.pl) >= 2
    /\ head[last.l] = Nil /\ tail[last.l] = Nil
    /\ next[last.pl[1]] = last.pl[2] /\ prev[last.pl[2]] = last.pl[1]

\* C10: in every reachable state Len()'s walk ends, it visits exactly the
\* current members, its result is their number, and it is 0 exactly when the
\* list has no members.
C10_Len ==
    \A l \in Lists :
        /\ ListLen(S, l) # Diverges
        /\ Range(Forward(S, l)) = mem[l]
        /\ ListLen(S, l) = Cardinality(mem[l])
        /\ ListLen(S, l) = 0 <=> mem[l] = {}

\* A list of three members, some of them spliced in from another list.
C10_Witness ==
    /\ last.op = "PushFrontList"
    /\ last.pl # <<>> /\ last.pm # <<>>
    /\ ListLen(S, last.l) = 3

\* C11 as claimed: every Remove(e) of a node that is not a member of l leaves
\* l violating the structural invariants.
C11_Claimed ==
    last.op = "RemoveNonMember" => ~Structural(last.l)

\* C11 as amended: l.Remove(e) for a node e that is not a member of l runs
\* unchecked.  It changes nothing when both links of e are nil.  When e is a
\* member of another list m, l keeps its walk and its invariants; m keeps its
\* walk when e is its only member, loses e from its walk (while still
\* structurally a chain) when e is an inner member, and is left with a
\* backward walk that is not the reverse of its forward walk when e is its
\* head or tail and it has other members.
C11_RemoveNonMember ==
    [][last'.op = "RemoveNonMember" =>
          \A l \in Lists, e \in Nodes :
              (last'.l = l /\ last'.e = e) =>
                  /\ e \notin mem[l]
                  /\ (next[e] = Nil /\ prev[e] = Nil) =>
                         UNCHANGED <<head, tail, next, prev>>
                  /\ \A m \in Lists :
                         last'.m = m =>
                             LET q == Forward(S, m)
                                 i == IndexOf(q, e)
                             IN  /\ e \in Range(q)
                                 /\ Forward(S, l)' = Forward(S, l)
                                 /\ Structural(l)'
                                 /\ Len(q) = 1 => Forward(S, m)' = q
                                 /\ (1 < i /\ i < Len(q)) =>
                                        /\ Forward(S, m)' = Without(q, e)
                                        /\ EndsNil(m)' /\ Chain(m)'
                                 /\ (Len(q) > 1 /\ i \in {1, Len(q)}) =>
                                        Backward(S, m)' # Reverse(Forward(S, m)')]_vars

\* The head of a list of several members was removed through another list:
\* the list still starts at the removed node and its two walks disagree.
C11_Witness ==
    /\ last.op = "RemoveNonMember"
    /\ last.m # Nil
    /\ Len(last.pm) > 1 /\ last.pm[1] = last.e
    /\ Front(S, last.m) = last.e
    /\ Forward(S, last.m) = <<last.e>>
    /\ Backward(S, last.m) # <<last.e>>

\* The forward or the backward walk of l runs into a cycle.
Cyclic(l) == ~NoDup(Forward(S, l)) \/ ~NoDup(Backward(S, l))

\* Two members of l whose next and prev links disagree.
Asymmetric(l) ==
    \E a, b \in mem[l] : (next[a] = b) # (prev[b] = a)

\* C12: after a node that is already a member of l has been inserted into l
\* again (PushFront, PushBack, InsertAfter or InsertBefore), l has a cycle, a
\* head with a non-nil prev, a tail with a non-nil next, or members whose
\* next and prev links disagree.
C12_InsertMember ==
    last.op \in InsertMemberOps =>
        LET l == last.l
        IN  /\ last.e \in Range(last.pl)
            /\ \/ Cyclic(l)
               \/ head[l] # Nil /\ prev[head[l]] # Nil
               \/ tail[l] # Nil /\ next[tail[l]] # Nil
               \/ Asymmetric(l)

\* The tail of a two-member list was pushed to the front again: the walk
\* from the head never reaches nil.
C12_Witness ==
    /\ last.op = "PushFrontMember"
    /\ Len(last.pl) = 2 /\ last.pl[2] = last.e
    /\ Cyclic(last.l)
    /\ ListLen(S, last.l) = Diverges

\* A node that is in no list and still carries a link: only Reset leaves one.
Stale(e) == e \notin Linked /\ (next[e] # Nil \/ prev[e] # Nil)

InsertOps == {"PushFront", "PushBack", "InsertAfter", "InsertBefore"}

AllStructural == \A k \in Lists : Structural(k)

\* The members that the links of e point to are linked to each other already.
Bypassed(e) ==
    /\ prev[e] \in Linked => next[prev[e]] = next[e]
    /\ next[e] \in Linked => prev[next[e]] = prev[e]

\* C13 as claimed: pushing, inserting or removing a node whose links Reset left
\* stale produces a list that violates the structural invariants.
C13_Claimed ==
    [][last'.op \in InsertOps \cup {"RemoveNonMember"} =>
          \A e \in Nodes :
              (last'.e = e /\ Stale(e)) => ~AllStructural']_vars

\* C13 as amended: pushing or inserting a node that is in no list, its links
\* nil or left stale by Reset, leaves every list satisfying the structural
\* invariants (the call overwrites both links of the node); removing a node
\* with stale links leaves every list satisfying them exactly when the
\* members its links point to are already linked to each other, and
\* otherwise leaves a list that violates them.
C13_StaleNode ==
    /\ [](last.op \in InsertOps => AllStructural)
    /\ [][last'.op = "RemoveNonMember" =>
             \A e \in Nodes :
                 (last'.e = e /\ Stale(e)) =>
                     (AllStructural' <=> Bypassed(e))]_vars

\* A node left stale by Reset was removed while its old predecessor was in a
\* list again: that list no longer satisfies the invariants.
C13_Witness ==
    /\ last.op = "RemoveNonMember"
    /\ last.m = Nil
    /\ ~Structural(last.l)
    /\ ~AllStructural

\* C15: a splice of distinct lists writes boundary links only.
\* PushFrontList(m) changes no next field but that of m's tail and no prev
\* field but that of l's head; PushBackList(m) changes no next field but
\* that of l's tail and no prev field but that of m's head.  When l is empty
\* no link changes and l takes m's head and tail; when m is empty l's head,
\* l's tail and all links stay as they are.
C15_SpliceFrame ==
    [][last'.op \in {"PushFrontList", "PushBackList"} =>
          \A l \in Lists, m \in Lists :
              (last'.l = l /\ last'.m = m) =>
                  /\ l # m
                  /\ last'.op = "PushFrontList" =>
                         \A e \in Nodes :
                             /\ next'[e] # next[e] => e = tail[m]
                             /\ prev'[e] # prev[e] => e = head[l]
                  /\ last'.op = "PushBackList" =>
                         \A e \in Nodes :
                             /\ next'[e] # next[e] => e = tail[l]
                             /\ prev'[e] # prev[e] => e = head[m]
                  /\ head[l] = Nil =>
                         /\ next' = next /\ prev' = prev
                         /\ head'[l] = head[m] /\ tail'[l] = tail[m]
                  /\ head[m] = Nil =>
                         /\ next' = next /\ prev' = prev
                         /\ head'[l] = head[l] /\ tail'[l] = tail[l]]_vars

\* A list was spliced in front of a list of two members: the two boundary
\* links are set and the link between the two old members is as before.
C15_Witness ==
    /\ last.op = "PushFrontList"
    /\ Len(last.pl) = 2 /\ Len(last.pm) = 1
    /\ next[last.pm[1]] = last.pl[1] /\ prev[last.pl[1]] = last.pm[1]
    /\ next[last.pl[1]] = last.pl[2] /\ prev[last.pl[2]] = last.pl[1]

\* C16: l.Remove(e) for a node e with both links nil that is neither the
\* head nor the tail of l changes no List field and no link field; so
\* Remove(e) twice on a member e gives the memory that Remove(e) once gives,
\* and a second Remove(e) right after the first changes nothing.
C16_RemoveAgain ==
    [][/\ last'.op = "RemoveNonMember" =>
             \A l \in Lists, e \in Nodes :
                 (last'.l = l /\ last'.e = e) =>
                     /\ (next[e] = Nil /\ prev[e] = Nil
                           /\ head[l] # e /\ tail[l] # e) =>
                            UNCHANGED <<head, tail, next, prev>>
                     /\ (last.op = "Remove" /\ last.l = l /\ last.e = e) =>
                            UNCHANGED <<head, tail, next, prev>>
       /\ last'.op = "Remove" =>
             \A l \in Lists, e \in Nodes :
                 (last'.l = l /\ last'.e = e) =>
                     /\ S' = Remove(S, l, e)
                     /\ Remove(Remove(S, l, e), l, e) = Remove(S, l, e)]_vars

\* A node in no list, with nil links, was removed from a list of two
\* members, which still has its walk in both directions.
C16_Witness ==
    /\ last.op = "RemoveNonMember"
    /\ last.m = Nil
    /\ Len(last.pl) = 2
    /\ Forward(S, last.l) = last.pl
    /\ Backward(S, last.l) = Reverse(last.pl)
    /\ AllStructural

\* C17: PushFront, PushBack, InsertAfter, InsertBefore, Remove and Reset on
\* a list l change neither the head nor the tail of another list m, nor the
\* next or prev field of any member of m.
C17_OtherListFrame ==
    [][last'.op \in InsertOps \cup {"Remove", "Reset"} =>
          \A l \in Lists :
              last'.l = l =>
                  \A m \in Lists \ {l} :
                      /\ mem[l] \cap mem[m] = {}
                      /\ head'[m] = head[m] /\ tail'[m] = tail[m]
                      /\ \A e \in mem[m] :
                             next'[e] = next[e] /\ prev'[e] = prev[e]]_vars

\* A node was removed from one list while another list had two members,
\* which it still has.
C17_Witness ==
    /\ last.op = "Remove"
    /\ \E m \in Lists \ {last.l} :
           /\ Cardinality(mem[m]) = 2
           /\ Len(Forward(S, m)) = 2
           /\ Backward(S, m) = Reverse(Forward(S, m))

\* C18: l.PushFrontList(l) or l.PushBackList(l) on a non-empty l leaves l
\* with head and tail nil, the next link of the former tail on the former
\* head and the prev link of the former head on the former tail: the former
\* members are a cycle in both directions, and no list has its head or tail
\* among them.
C18_SelfSplice ==
    (last.op \in SelfSpliceOps /\ last.pl # <<>>) =>
        LET l == last.l
            q == last.pl
            n == Len(q)
        IN  /\ last.m = l
            /\ head[l] = Nil /\ tail[l] = Nil
            /\ next[q[n]] = q[1]
            /\ prev[q[1]] = q[n]
            /\ Walk(next, q[1], n + 1) = q \o <<q[1]>>
            /\ Walk(prev, q[n], n + 1) = Reverse(q) \o <<q[n]>>
            /\ \A k \in Lists :
                   head[k] \notin Range(q) /\ tail[k] \notin Range(q)

\* A list of three members was appended to itself.
C18_Witness ==
    /\ last.op = "PushBackListSelf"
    /\ Len(last.pl) = 3
    /\ Empty(S, last.l)
    /\ next[last.pl[3]] = last.pl[1]

\* Every list satisfies the structural invariants and its walk visits
\* exactly the nodes the caller has in it.
Intact == AllStructural /\ \A l \in Lists : Range(Forward(S, l)) = mem[l]

\* C14: when the caller holds a lock around every call, no goroutine panics,
\* at most one call runs at a time, and whenever no call is running every
\* list satisfies the structural invariants and holds exactly the nodes put
\* into it and not removed.  (Without the lock the witness below is
\* reachable.)
C14_Serialised ==
    mutex.on =>
        /\ \A t \in Threads : thread[t].pc # "panic"
        /\ \A t, u \in Threads : (~Resting(t) /\ ~Resting(u)) => t = u
        /\ Quiet => Intact

\* Two PushBack calls on the same list ran without a lock and both
\* returned, and the list has lost a node or is no longer well formed.
C14_Witness ==
    /\ ~mutex.on
    /\ \A t \in Threads : thread[t].pc = "done"
    /\ \E t, u \in Threads :
          /\ t # u
          /\ thread[t].l = thread[u].l
          /\ thread[t].e \in mem[thread[t].l]
          /\ thread[u].e \in mem[thread[u].l]
    /\ ~Intact

====
